---------------------------- MODULE Spec2Model ----------------------------
(***************************************************************************)
(* Model of the LTFS zip archiver: a coalescing BufferedWriter in front of *)
(* the destination file, archive/zip's streaming writer on top of it, the  *)
(* optional AsyncSHA256Writer between the two, the PauseController that    *)
(* gates the copy loop, and main/addFiles that wire them.                  *)
(*                                                                         *)
(* Two program variants exist: variant 1 is src/main.go (no digest, entry  *)
(* names relative to the source), variant 2 is src/unnamed/part_001        *)
(* (digest stage, volume-rooted entry names, log-and-continue callbacks).  *)
(*                                                                         *)
(* A byte is a triple <<kind, a, b>>; every byte the pipeline produces is  *)
(* distinct, so loss, duplication and reordering are all visible.          *)
(***************************************************************************)
EXTENDS Integers, Sequences, FiniteSets, TLC

VARIABLES
    bw,        \* BufferedWriter: [buffer, offset]
    file,      \* destination file: [data (bytes accepted), calls (writes received)]
    asw,       \* AsyncSHA256Writer: [closed, dataCh, folded, resultCh, doneCh, worker]
    zw,        \* zip.Writer: [last, closed, err, dir, dirOut]
    useSha,    \* finalWriter is the AsyncSHA256Writer (variant 2 without -n)
    variant,   \* 1 = src/main.go, 2 = src/unnamed/part_001
    host,      \* "windows" or "unix": how filepath splits a volume name
    sources,   \* the lines of src.txt
    pc,        \* where the producer (main goroutine) stands
    srcIdx,    \* index of the source addFiles is walking
    walk,      \* entries filepath.Walk has still to hand to the callback
    cur,       \* the entry the callback is working on
    readPos,   \* bytes of the current file already read
    pcn,       \* PauseController: [paused, asleep]
    createdVolumes, \* volume roots already given a header (variant 2)
    sidecar,   \* the .sha256 file has been written
    sha256Sum, \* what Sum returned to main
    hist,      \* history: what happened so far, for stating properties
    drv        \* harness state of the component specifications

vars == <<bw, file, asw, zw, useSha, variant, host, sources, pc, srcIdx, walk,
          cur, readPos, pcn, createdVolumes, sidecar, sha256Sum, hist, drv>>

-----------------------------------------------------------------------------
(* Bounds of the model *)

\* largest BufferedWriter capacity tried by the BufferedWriter harness
MaxCap == 3
\* longest chunk one harness Write call passes
MaxChunk == 4
\* total number of bytes the harness writes
MaxInput == 6
\* sink failures the harness may inject
MaxFaults == 1

\* make([]byte, n): n zero bytes
Zero == <<"Z", 0, 0>>

ZeroBuf(n) == [i \in 1..n |-> Zero]

Min(a, b) == IF a < b THEN a ELSE b

RECURSIVE Flatten(_)
Flatten(ss) == IF ss = <<>> THEN <<>> ELSE Head(ss) \o Flatten(Tail(ss))

-----------------------------------------------------------------------------
(* The world the writer stack acts on: the objects a Write call can reach, *)
(* and the environment's plan for the call: failAt counts down to the sink  *)
(* write that fails (0: none does), acc is how many bytes that write takes. *)

\* the one element of a singleton: Only({e(x) : x \in {v}}) is e(v), with v
\* evaluated a single time
Only(S) == CHOOSE x \in S : TRUE

World(failAt, acc) ==
    [bw |-> bw, file |-> file, asw |-> asw, zw |-> zw, sha |-> useSha,
     failAt |-> failAt, acc |-> acc]

\* os.File.Write(p): a failing write accepts only the first acc bytes.
\* Every call is recorded with its length and the caller that issued it.
FileWrite(w, p, via) ==
    LET fail == w.failAt = 1
        n == IF fail THEN Min(w.acc, Len(p) - 1) ELSE Len(p)
    IN [w   |-> [w EXCEPT !.file.data = @ \o SubSeq(p, 1, n),
                          !.file.calls = Append(@, [size |-> Len(p), via |-> via,
                                                    n |-> n, ok |-> ~fail]),
                          !.failAt = IF @ > 0 THEN @ - 1 ELSE 0],
        n   |-> n,
        err |-> fail]

\* a plausible slip: a send that gives up instead of waiting, the chunk is
\* dropped when the worker has not yet taken the previous one
AswSendDrop(w, p, n) ==
    IF ~w.asw.closed /\ n > 0 /\ w.asw.dataCh = <<>>
    THEN [w EXCEPT !.asw.dataCh = Append(@, SubSeq(p, 1, n))]
    ELSE w

\* the send on dataCh inside AsyncSHA256Writer.Write: a private copy of p[:n]
AswSend(w, p, n) ==
    IF ~w.asw.closed /\ n > 0
    THEN [w EXCEPT !.asw.dataCh = Append(@, SubSeq(p, 1, n))]
    ELSE w

\* AsyncSHA256Writer.Write after n, err = asw.writer.Write(p): on an error
\* it returns at once, otherwise the bytes written go to the hash worker
AswAfterWrite(r, p) ==
    IF r.err THEN r ELSE [r EXCEPT !.w = AswSend(r.w, p, r.n)]

\* AsyncSHA256Writer.Write
AswWrite(w, p, via) == AswAfterWrite(FileWrite(w, p, via), p)

\* bw.writer.Write: finalWriter is the file or the AsyncSHA256Writer
SinkWrite(w, p, via) ==
    IF w.sha THEN AswWrite(w, p, via) ELSE FileWrite(w, p, via)

\* a plausible slip: a failed block is kept in the buffer to be sent again
FlushKeepsBlock(r) ==
    [w |-> IF r.err THEN r.w ELSE [r.w EXCEPT !.bw.offset = 0], err |-> r.err]

\* a plausible slip: the error of the sink write is dropped
FlushSwallows(r) == [w |-> [r.w EXCEPT !.bw.offset = 0], err |-> FALSE]

\* BufferedWriter.Flush after the sink write: bw.offset = 0; return err
FlushAfterWrite(r) == [w |-> [r.w EXCEPT !.bw.offset = 0], err |-> r.err]

\* BufferedWriter.Flush
Flush(w, via) ==
    IF w.bw.offset = 0
    THEN [w |-> w, err |-> FALSE]
    ELSE FlushAfterWrite(SinkWrite(w, SubSeq(w.bw.buffer, 1, w.bw.offset), via))

\* a plausible slip: the source offset is forgotten, every round of the loop
\* copies from the start of p
CopyFromStart(buffer, offset, p, srcOffset, copySize) ==
    [i \in 1..Len(buffer) |->
        IF i > offset /\ i <= offset + copySize
        THEN p[i - offset]
        ELSE buffer[i]]

\* copy(bw.buffer[bw.offset:], p[srcOffset:srcOffset+copySize])
CopyInto(buffer, offset, p, srcOffset, copySize) ==
    [i \in 1..Len(buffer) |->
        IF i > offset /\ i <= offset + copySize
        THEN p[srcOffset + (i - offset)]
        ELSE buffer[i]]

\* one round of the loop of BufferedWriter.Write, the buffer having room:
\* copy what fits and advance
CopyRound(w, p, srcOffset, copySize) ==
    [w EXCEPT !.bw.buffer = CopyInto(@, w.bw.offset, p, srcOffset, copySize),
              !.bw.offset = @ + copySize]

\* how much one round copies
CopySize(w, remaining) == Min(remaining, Len(w.bw.buffer) - w.bw.offset)

\* a plausible slip: the buffer is flushed one byte early
AlmostFull(w) == Len(w.bw.buffer) - w.bw.offset <= 1

\* available == 0: the buffer is full
Full(w) == Len(w.bw.buffer) - w.bw.offset = 0

\* The loop of BufferedWriter.Write; f is the outcome of the Flush of a full
\* buffer (or the world as it is, the buffer having room)
RECURSIVE WriteLoop(_, _, _, _)
WriteRound(f0, p, srcOffset, remaining) ==
    Only({IF f.err
    THEN [w |-> f.w, n |-> Len(p) - remaining, err |-> TRUE]
    ELSE WriteLoop(CopyRound(f.w, p, srcOffset, CopySize(f.w, remaining)), p,
                   srcOffset + CopySize(f.w, remaining),
                   remaining - CopySize(f.w, remaining)) : f \in {f0}})

WriteLoop(w0, p, srcOffset, remaining) ==
    Only({IF remaining <= 0
    THEN [w |-> w, n |-> Len(p), err |-> FALSE]
    ELSE WriteRound(IF Full(w)
                    THEN Flush(w, "Write")
                    ELSE [w |-> w, err |-> FALSE],
                    p, srcOffset, remaining) : w \in {w0}})

\* BufferedWriter.Write
Write(w, p) == WriteLoop(w, p, 0, Len(p))

\* NewBufferedWriter(writer, bufSize)
NewBufferedWriter(bufSize) == [buffer |-> ZeroBuf(bufSize), offset |-> 0]

\* no digest stage: finalWriter is the file itself
NoAsw == [closed |-> FALSE, dataCh |-> <<>>, folded |-> <<>>, resultCh |-> <<>>,
          doneCh |-> FALSE, worker |-> "none"]

\* nothing has happened yet
NoHist == [started |-> 0, reads |-> 0, copyErr |-> FALSE, errAt |-> 0, finalErr |-> FALSE,
           blocked |-> FALSE, sincePause |-> 0]

-----------------------------------------------------------------------------
(* The file system the sources point into.  A path is a volume name and a   *)
(* sequence of components; on "unix" the volume name is empty.              *)

Node(v, comps, isDir, size) == [vol |-> v, comps |-> comps, isDir |-> isDir, size |-> size]

\* size of d1/a.txt: more than one chunk of the copy buffer
BigFile == 3
\* size of d2/a.txt
SmallFile == 1

\* the objects of one volume, in the order filepath.Walk visits them
Tree(v) ==
    << Node(v, <<>>, TRUE, 0),
       Node(v, <<"d1">>, TRUE, 0),
       Node(v, <<"d1", "a.txt">>, FALSE, BigFile),
       Node(v, <<"d2">>, TRUE, 0),
       Node(v, <<"d2", "a.txt">>, FALSE, SmallFile) >>

Volumes(h) == IF h = "windows" THEN {"C", "D"} ELSE {""}

Objects(h) == UNION {{Tree(v)[i] : i \in 1..Len(Tree(v))} : v \in Volumes(h)}

IsPrefix(a, b) == Len(a) <= Len(b) /\ SubSeq(b, 1, Len(a)) = a

\* filepath.Walk(root, fn): root itself, then everything below it, lexically
Walk(root) ==
    SelectSeq(Tree(root.vol), LAMBDA n : IsPrefix(root.comps, n.comps))

\* filepath.Dir
Dir(path) ==
    IF path.comps = <<>> THEN path
    ELSE [path EXCEPT !.comps = SubSeq(@, 1, Len(@) - 1)]

\* filepath.Base, as a relative path
Base(path) == IF path.comps = <<>> THEN <<>> ELSE <<path.comps[Len(path.comps)]>>

\* filepath.Rel(base, target) for a target at or below base: "." for base itself
Rel(base, target) ==
    IF target.comps = base.comps THEN <<".">>
    ELSE SubSeq(target.comps, Len(base.comps) + 1, Len(target.comps))

\* filepath.Join(elems...): empty elements are dropped; all empty gives ""
Join(a, b) == a \o b

\* An entry name: the slash-separated components and the trailing "/"
Name(comps, slash) == [comps |-> comps, slash |-> slash]

Path(n) == [vol |-> n.vol, comps |-> n.comps]

\* addFiles of src/main.go: baseDir is the source itself if it is a
\* directory, its parent otherwise
BaseDir(basePath) == IF basePath.isDir THEN Path(basePath) ELSE Dir(Path(basePath))

\* ... and the entry name is the path relative to baseDir
RelName(basePath, n) ==
    LET baseDir == BaseDir(basePath)
        relPath == IF ~n.isDir /\ baseDir = Dir(Path(basePath)) /\ Path(basePath) = Path(n)
                   THEN Base(n)
                   ELSE Rel(baseDir, Path(n))
    IN Name(relPath, n.isDir)

\* addFiles of the digest variant: strings.TrimSuffix(filepath.VolumeName(absPath), ":")
DriveLetter(n) == n.vol

\* filepath.Join(driveLetter, pathWithoutVolume)
ZipPath(n) == Join(IF DriveLetter(n) = "" THEN <<>> ELSE <<DriveLetter(n)>>, n.comps)

VolName(n) == Name(ZipPath(n), n.isDir)

\* volHeader.Name = driveLetter + "/"
VolHeaderName(n) == Name(<<DriveLetter(n)>>, TRUE)

\* zipPath == "" || zipPath == "."
Skipped(n) == ZipPath(n) = <<>> \/ ZipPath(n) = <<".">>

-----------------------------------------------------------------------------
(* archive/zip's Writer over the BufferedWriter.  Its bufio.Writer keeps the *)
(* first error: after a failed write nothing more is passed down.           *)

\* zip.NewWriter(bufferedFile)
NewZipWriter == [last |-> "none", closed |-> FALSE, err |-> FALSE, dir |-> <<>>, dirOut |-> 0]

\* w.cw.Write(p) after the write to the BufferedWriter: the error sticks
ZipOutAfter(r) == [w |-> [r.w EXCEPT !.zw.err = r.err], err |-> r.err]

\* w.cw.Write(p)
ZipOut(w, p) ==
    IF w.zw.err THEN [w |-> w, err |-> TRUE] ELSE ZipOutAfter(Write(w, p))

\* fileWriter.close(): the data descriptor of the entry that was open
CloseLast(w) ==
    IF w.zw.last = "open"
    THEN ZipOut([w EXCEPT !.zw.last = "closed"], << <<"X", Len(w.zw.dir), 0>> >>)
    ELSE [w |-> w, err |-> FALSE]

\* CreateHeader after writeHeader: w.last is the new entry, nil for a name
\* ending in "/"
HeaderWritten(h, name) ==
    IF h.err THEN h
    ELSE [w |-> [h.w EXCEPT !.zw.last = IF name.slash THEN "none" ELSE "open"],
          err |-> FALSE]

\* CreateHeader after prepare: the header joins the directory and its local
\* header is written.  A header keeps the FileInfo it was built from; synth
\* marks a volume header.
HeaderPrepared(c, name, info, synth) ==
    IF c.err THEN c
    ELSE HeaderWritten(
           ZipOut([c.w EXCEPT !.zw.dir = Append(@, [name |-> name, info |-> Path(info),
                                                    synth |-> synth])],
                  << <<"H", Len(c.w.zw.dir) + 1, 0>> >>),
           name)

\* zip.Writer.CreateHeader(fh)
CreateHeader(w, name, info, synth) == HeaderPrepared(CloseLast(w), name, info, synth)

\* fileWriter.Write(p)
EntryWrite(w, p) == ZipOut(w, p)

\* Close after the central directory and the end record went out
DirectoryWritten(d) ==
    IF d.err THEN d ELSE [w |-> [d.w EXCEPT !.zw.dirOut = @ + 1], err |-> FALSE]

\* Close after the open entry is closed: a second Close is refused, the first
\* writes the central directory and the end record
CloseDirectory(c) ==
    IF c.err THEN c
    ELSE IF c.w.zw.closed THEN [w |-> c.w, err |-> TRUE]
    ELSE DirectoryWritten(
           ZipOut([c.w EXCEPT !.zw.closed = TRUE, !.zw.last = "none"],
                  << <<"CD", Len(c.w.zw.dir), 0>>, <<"END", Len(c.w.zw.dir), 0>> >>))

\* zip.Writer.Close()
ZipWriterClose(w) == CloseDirectory(CloseLast(w))

-----------------------------------------------------------------------------
(* The pipeline: main from os.Create on, addFiles and its Walk callback,    *)
(* the input listener that toggles the pause, and the hash worker.          *)

\* capacity of bufferedFile, scaled down from 10 MiB
BufSize == 3
\* len(copyBuffer), scaled down from 5 MiB
CopyBufSize == 2
\* capacity of dataCh
QueueDepth == 10
\* longest src.txt the pipeline is run on
MaxSources == 2

\* NewAsyncSHA256Writer(writer): the worker goroutine is started
NewAsyncSHA256Writer ==
    [closed |-> FALSE, dataCh |-> <<>>, folded |-> <<>>, resultCh |-> <<>>,
     doneCh |-> FALSE, worker |-> "run"]

\* hex.EncodeToString(hasher.Sum(nil)): never empty, and one digest per stream
Sha256Hex(folded) == <<folded>>

\* the nil slice Close sends as end-of-stream
Nil == <<>>

\* a plausible slip: a channel that takes whatever is sent
Unbounded(w) == TRUE

\* a send on dataCh completes only while the channel has room
Room(w) == Len(w.asw.dataCh) <= QueueDepth

\* a plausible slip: the flag is never looked at
NeverWaits(paused) == FALSE

\* the loop condition of WaitIfPaused
MustWait(paused) == paused = 1

\* a plausible slip: the flag is cleared and nobody is woken
ResumedSilently(p) == [p EXCEPT !.paused = 0]

\* Toggle clearing the flag: pc.cond.Broadcast() wakes the waiting task
Resumed(p) == [paused |-> 0, asleep |-> FALSE]

\* Toggle setting the flag
Paused(p) == [p EXCEPT !.paused = 1]

\* a plausible slip: WaitIfPaused is called once per entry only
ReadsOn(v) == "chunkRW"

\* where the copy loop stands before each file.Read: at WaitIfPaused
BeforeRead(v) == "chunkWait"

\* a plausible slip: the digest variant's policy everywhere
AlwaysContinue(v) == "walk"

\* what the callback's caller does with an error of the copy loop:
\* src/main.go returns it, Walk stops and main calls log.Fatalf; the digest
\* variant logs it and returns nil, so Walk goes on
AfterEntryError(v) == IF v = 1 THEN "fatal" ELSE "walk"

\* the callback's outcome: the world, the error it returns, whether the
\* entry was skipped, the volumes it marked as created
Outcome(r, skip, vols) == [w |-> r.w, err |-> r.err, skip |-> skip, vols |-> vols]

\* the Walk callback up to the copy loop, for src/main.go
Callback1(w, basePath, n) ==
    Outcome(CreateHeader(w, RelName(basePath, n), n, FALSE), FALSE, {})

\* the digest variant, after the volume header: the entry's own header
\* unless its name is empty
OwnHeader(w, n, vols) ==
    IF Skipped(n)
    THEN [w |-> w, err |-> FALSE, skip |-> TRUE, vols |-> vols]
    ELSE Outcome(CreateHeader(w, VolName(n), n, FALSE), FALSE, vols)

\* the Walk callback up to the copy loop, for the digest variant: a header
\* for the volume when its drive letter is seen first (a failure is only
\* logged, the volume counts as created all the same)
Callback2(w, n, created) ==
    IF DriveLetter(n) # "" /\ DriveLetter(n) \notin created
    THEN OwnHeader(CreateHeader(w, VolHeaderName(n), n, TRUE).w, n, {DriveLetter(n)})
    ELSE OwnHeader(w, n, {})

Alive == pc \notin {"done", "fatal", "harness"}

Apply(w) == /\ bw' = w.bw /\ file' = w.file /\ asw' = w.asw /\ zw' = w.zw

Config == <<useSha, variant, host, sources>>

\* the environment's plans for one step: which sink write fails, if any
Plans == {<<f, a>> : f \in 0..3, a \in 0..1}

Allowed(plan) == plan[1] > 0 => drv.sinkFaults > 0

\* a plan is carried out in full or not chosen at all
Used(w) == w.failAt = 0

\* main: for _, source := range sources { addFiles(...) }, then the shutdown
MainLoop ==
    /\ pc = "loop"
    /\ IF srcIdx < Len(sources)
       THEN /\ srcIdx' = srcIdx + 1
            /\ walk' = Walk(sources[srcIdx + 1])
            /\ pc' = "walk"
       ELSE /\ pc' = IF variant = 1 THEN "deferClose" ELSE "close"
            /\ UNCHANGED <<srcIdx, walk>>
    /\ UNCHANGED <<bw, file, asw, zw, Config, cur, readPos, pcn, createdVolumes,
                   sidecar, sha256Sum, hist, drv>>

\* filepath.Walk hands the next object to the callback, or returns
WalkStep ==
    /\ pc = "walk"
    /\ IF walk = <<>>
       THEN /\ pc' = "loop"
            /\ UNCHANGED <<walk, cur, hist>>
       ELSE /\ cur' = Head(walk)
            /\ walk' = Tail(walk)
            /\ hist' = [hist EXCEPT !.started = @ + 1]
            /\ pc' = "cbWait"
    /\ UNCHANGED <<bw, file, asw, zw, Config, srcIdx, readPos, pcn, createdVolumes,
                   sidecar, sha256Sum, drv>>

\* PauseController.WaitIfPaused, called by the callback and by the copy loop
WaitIfPaused ==
    /\ pc \in {"cbWait", "chunkWait"}
    /\ ~pcn.asleep
    /\ IF MustWait(pcn.paused)
       THEN /\ pcn' = [pcn EXCEPT !.asleep = TRUE]
            /\ hist' = [hist EXCEPT !.blocked = @ \/ pc = "chunkWait"]
            /\ UNCHANGED pc
       ELSE /\ pc' = IF pc = "cbWait" THEN "cbBody" ELSE "chunkRW"
            /\ UNCHANGED <<pcn, hist>>
    /\ UNCHANGED <<bw, file, asw, zw, Config, srcIdx, walk, cur, readPos,
                   createdVolumes, sidecar, sha256Sum, drv>>

\* PauseController.Toggle, called by the input listener for each line
Toggle ==
    /\ Alive
    /\ pcn' = IF pcn.paused = 0 THEN Paused(pcn) ELSE Resumed(pcn)
    /\ hist' = [hist EXCEPT !.sincePause = 0]
    /\ UNCHANGED <<bw, file, asw, zw, Config, pc, srcIdx, walk, cur, readPos,
                   createdVolumes, sidecar, sha256Sum, drv>>

\* the Walk callback from currentFile.Store to the header it creates
Callback ==
    /\ pc = "cbBody"
    /\ \E plan \in Plans :
         /\ Allowed(plan)
         /\ \E r \in {IF variant = 1
                       THEN Callback1(World(plan[1], plan[2]), sources[srcIdx], cur)
                       ELSE Callback2(World(plan[1], plan[2]), cur, createdVolumes)} :
               /\ Used(r.w) /\ Room(r.w)
               /\ Apply(r.w)
               /\ drv' = [drv EXCEPT !.sinkFaults = IF plan[1] > 0 THEN @ - 1 ELSE @]
               /\ createdVolumes' = createdVolumes \cup r.vols
               /\ pc' = IF r.err THEN AfterEntryError(variant)
                        ELSE IF r.skip \/ cur.isDir THEN "walk"
                        ELSE BeforeRead(variant)
    /\ readPos' = 0
    /\ UNCHANGED <<Config, srcIdx, walk, cur, pcn, sidecar, sha256Sum, hist>>

\* one round of the copy loop after WaitIfPaused: file.Read, writer.Write
CopyChunk ==
    /\ pc = "chunkRW"
    /\ \E plan \in Plans, readFails \in BOOLEAN :
         /\ Allowed(plan)
         /\ readFails => drv.readFaults > 0 /\ plan[1] = 0
         /\ \E n \in {IF readFails THEN 0 ELSE Min(CopyBufSize, cur.size - readPos)} :
            \E r \in {IF n > 0
                       THEN EntryWrite(World(plan[1], plan[2]),
                                       [i \in 1..n |-> <<"P", Len(zw.dir), readPos + i>>])
                       ELSE [w |-> World(plan[1], plan[2]), err |-> FALSE]} :
            \E failed \in {r.err \/ readFails} :
               /\ Used(r.w) /\ Room(r.w)
               /\ Apply(r.w)
               /\ drv' = [drv EXCEPT !.sinkFaults = IF plan[1] > 0 THEN @ - 1 ELSE @,
                                     !.readFaults = IF readFails THEN @ - 1 ELSE @]
               /\ readPos' = IF failed THEN readPos ELSE readPos + n
               /\ hist' = [hist EXCEPT !.reads = @ + 1,
                                       !.sincePause = IF pcn.paused = 1 THEN @ + 1 ELSE @,
                                       !.copyErr = @ \/ failed,
                                       !.errAt = IF failed /\ ~hist.copyErr
                                                 THEN hist.started ELSE @]
               /\ pc' = IF failed THEN AfterEntryError(variant)
                        ELSE IF n = 0 THEN "walk" ELSE BeforeRead(variant)
    /\ UNCHANGED <<Config, srcIdx, walk, cur, pcn, createdVolumes, sidecar, sha256Sum>>

\* a plausible slip: the digest is taken before the buffer is flushed
SumBeforeFlush(at) == IF at = "close" THEN "sum" ELSE "deferFlush"

\* what follows zipWriter.Close(): bufferedFile.Flush(), in main and in
\* the deferred function
AfterZipClose(at) == IF at = "close" THEN "flush" ELSE "deferFlush"

\* zipWriter.Close(): called by main in the digest variant, and by the
\* deferred function in both
ZipClose ==
    /\ pc \in {"close", "deferClose"}
    /\ \E plan \in Plans :
         /\ Allowed(plan)
         /\ \E r \in {ZipWriterClose(World(plan[1], plan[2]))} :
            \E first \in {pc = "close" \/ variant = 1} :
               /\ Used(r.w) /\ Room(r.w)
               /\ Apply(r.w)
               /\ drv' = [drv EXCEPT !.sinkFaults = IF plan[1] > 0 THEN @ - 1 ELSE @]
               /\ hist' = [hist EXCEPT !.finalErr = @ \/ (first /\ r.err)]
    /\ pc' = AfterZipClose(pc)
    /\ UNCHANGED <<Config, srcIdx, walk, cur, readPos, pcn, createdVolumes,
                   sidecar, sha256Sum>>

\* bufferedFile.Flush(): after each zipWriter.Close()
FinalFlush ==
    /\ pc \in {"flush", "deferFlush"}
    /\ \E plan \in Plans :
         /\ Allowed(plan)
         /\ \E r \in {Flush(World(plan[1], plan[2]), "Flush")} :
               /\ Used(r.w) /\ Room(r.w)
               /\ Apply(r.w)
               /\ drv' = [drv EXCEPT !.sinkFaults = IF plan[1] > 0 THEN @ - 1 ELSE @]
               /\ hist' = [hist EXCEPT !.finalErr = @ \/ r.err]
    /\ pc' = IF pc = "deferFlush" THEN "done"
             ELSE IF useSha THEN "sum" ELSE "report"
    /\ UNCHANGED <<Config, srcIdx, walk, cur, readPos, pcn, createdVolumes,
                   sidecar, sha256Sum>>

\* Sum calls AsyncSHA256Writer.Close(): closed is set, nil is sent
SumClose ==
    /\ pc = "sum"
    /\ IF ~asw.closed
       THEN /\ Len(asw.dataCh) < QueueDepth
            /\ asw' = [asw EXCEPT !.closed = TRUE, !.dataCh = Append(@, Nil)]
       ELSE UNCHANGED asw
    /\ pc' = "sumWait"
    /\ UNCHANGED <<bw, file, zw, Config, srcIdx, walk, cur, readPos, pcn,
                   createdVolumes, sidecar, sha256Sum, hist, drv>>

\* Sum: case result := <-asw.resultCh
SumResult ==
    /\ pc = "sumWait"
    /\ asw.resultCh # <<>>
    /\ sha256Sum' = Head(asw.resultCh)
    /\ asw' = [asw EXCEPT !.resultCh = Tail(@)]
    /\ pc' = "report"
    /\ UNCHANGED <<bw, file, zw, Config, srcIdx, walk, cur, readPos, pcn,
                   createdVolumes, sidecar, hist, drv>>

\* Sum: case <-time.After(30 * time.Second): close(asw.doneCh)
SumTimeout ==
    /\ pc = "sumWait"
    /\ asw' = [asw EXCEPT !.doneCh = TRUE]
    /\ pc' = "sumJoin"
    /\ UNCHANGED <<bw, file, zw, Config, srcIdx, walk, cur, readPos, pcn,
                   createdVolumes, sidecar, sha256Sum, hist, drv>>

\* a plausible slip: after the timeout Sum hands out the digest of what the
\* worker had folded so far
SumJoinPartial ==
    /\ pc = "sumJoin"
    /\ asw.worker = "exited"
    /\ sha256Sum' = Sha256Hex(asw.folded)
    /\ pc' = "report"
    /\ UNCHANGED <<bw, file, asw, zw, Config, srcIdx, walk, cur, readPos, pcn,
                   createdVolumes, sidecar, hist, drv>>

\* Sum: asw.wg.Wait() returns once the worker is gone; return ""
SumJoin ==
    /\ pc = "sumJoin"
    /\ asw.worker = "exited"
    /\ sha256Sum' = <<>>
    /\ pc' = "report"
    /\ UNCHANGED <<bw, file, asw, zw, Config, srcIdx, walk, cur, readPos, pcn,
                   createdVolumes, sidecar, hist, drv>>

\* hashWorker: case data := <-asw.dataCh
HashWorkerData ==
    /\ Alive
    /\ asw.worker = "run"
    /\ asw.dataCh # <<>>
    /\ LET data == Head(asw.dataCh)
       IN asw' = IF data = Nil
                 THEN [asw EXCEPT !.dataCh = Tail(@),
                                  !.resultCh = Append(@, Sha256Hex(asw.folded)),
                                  !.worker = "exited"]
                 ELSE [asw EXCEPT !.dataCh = Tail(@), !.folded = @ \o data]
    /\ UNCHANGED <<bw, file, zw, Config, pc, srcIdx, walk, cur, readPos, pcn,
                   createdVolumes, sidecar, sha256Sum, hist, drv>>

\* hashWorker: case <-asw.doneCh
HashWorkerDone ==
    /\ Alive
    /\ asw.worker = "run"
    /\ asw.doneCh
    /\ asw' = [asw EXCEPT !.worker = "exited"]
    /\ UNCHANGED <<bw, file, zw, Config, pc, srcIdx, walk, cur, readPos, pcn,
                   createdVolumes, sidecar, sha256Sum, hist, drv>>

\* main of the digest variant, after Sum: the .sha256 file is written when
\* the digest is not empty
Report ==
    /\ pc = "report"
    /\ sidecar' = (useSha /\ sha256Sum # <<>>)
    /\ pc' = "deferClose"
    /\ UNCHANGED <<bw, file, asw, zw, Config, srcIdx, walk, cur, readPos, pcn,
                   createdVolumes, sha256Sum, hist, drv>>

Producer ==
    \/ MainLoop \/ WalkStep \/ WaitIfPaused \/ Callback \/ CopyChunk
    \/ ZipClose \/ FinalFlush \/ Report

Digest ==
    \/ SumClose \/ SumResult \/ SumTimeout \/ SumJoin
    \/ HashWorkerData \/ HashWorkerDone

Next == Producer \/ Digest \/ Toggle

\* src.txt: up to MaxSources existing paths
SourceLists(h, k) ==
    UNION {[1..n -> Objects(h)] : n \in 1..k}

\* src.txt holds up to maxSources lines
InitPipeline(hosts, maxSources, shas, sinkFaults, readFaults) ==
    /\ variant \in {1, 2}
    /\ useSha \in IF variant = 2 THEN shas ELSE {FALSE}
    /\ host \in hosts
    /\ sources \in SourceLists(host, maxSources)
    /\ bw = NewBufferedWriter(BufSize)
    /\ file = [data |-> <<>>, calls |-> <<>>]
    /\ asw = IF useSha THEN NewAsyncSHA256Writer ELSE NoAsw
    /\ zw = NewZipWriter
    /\ pc = "loop" /\ srcIdx = 0 /\ walk = <<>> /\ cur = <<>> /\ readPos = 0
    /\ pcn = [paused |-> 0, asleep |-> FALSE]
    /\ createdVolumes = {} /\ sidecar = FALSE /\ sha256Sum = <<>>
    /\ hist = NoHist
    /\ drv = [sinkFaults |-> sinkFaults, readFaults |-> readFaults]

\* sink write failures the environment may inject in one run
SinkFaults == 1
\* read failures the environment may inject in one run
ReadFaults == 1

\* the whole program on one source, with a device and a source that may fail
Init == InitPipeline({"unix", "windows"}, 1, BOOLEAN, SinkFaults, ReadFaults)

Spec == Init /\ [][Next]_vars

\* the whole program on one source, nothing fails; the goroutines are
\* scheduled fairly: main (Producer and Sum), and the hash worker
InitPause == InitPipeline({"unix", "windows"}, 1, BOOLEAN, 0, 0)

Main == Producer \/ SumClose \/ SumResult \/ SumTimeout \/ SumJoin

HashWorker == HashWorkerData \/ HashWorkerDone

SpecPause == InitPause /\ [][Next]_vars /\ WF_vars(Main) /\ WF_vars(HashWorker)

\* addFiles over several sources, nothing fails, nobody pauses, no digest
InitNames == InitPipeline({"unix", "windows"}, MaxSources, {FALSE}, 0, 0)

SpecNames == InitNames /\ [][Producer]_vars

-----------------------------------------------------------------------------
(* main from its first line: src.txt and dst.txt are read and checked, the  *)
(* sources are scanned, the destination is created; then the pipeline runs. *)
(* Path strings are sequences of characters here, since the nesting check   *)
(* compares them as strings.                                                *)

\* os.PathSeparator
Sep(h) == IF h = "windows" THEN "\\" ELSE "/"

\* the characters of a path component
Chars(c) ==
    CASE c = "d1" -> <<"d", "1">>
      [] c = "d2" -> <<"d", "2">>
      [] c = "d1x.zip" -> <<"d", "1", "x", ".", "z", "i", "p">>
      [] c = "a.txt" -> <<"a", ".", "t", "x", "t">>
      [] c = "out.zip" -> <<"o", "u", "t", ".", "z", "i", "p">>

RECURSIVE JoinChars(_, _)
JoinChars(comps, sep) ==
    IF comps = <<>> THEN <<>>
    ELSE IF Len(comps) = 1 THEN Chars(comps[1])
    ELSE Chars(comps[1]) \o <<sep>> \o JoinChars(Tail(comps), sep)

\* filepath.Abs of a path: "/d1/a.txt", "C:\d1\a.txt"; a root is "/", "C:\"
Abs(h, n) ==
    (IF n.vol = "" THEN <<>> ELSE <<n.vol, ":">>) \o <<Sep(h)>> \o JoinChars(n.comps, Sep(h))

\* strings.HasSuffix(s, string(os.PathSeparator))
EndsWithSep(h, s) == s # <<>> /\ s[Len(s)] = Sep(h)

\* absSource as the nesting check uses it: src/main.go takes filepath.Abs as
\* it is, the digest variant appends a separator to a directory's path
AbsSource(v, h, n) ==
    IF v = 2 /\ n.isDir /\ ~EndsWithSep(h, Abs(h, n))
    THEN Abs(h, n) \o <<Sep(h)>>
    ELSE Abs(h, n)

\* strings.HasPrefix
HasPrefix(s, prefix) == Len(prefix) <= Len(s) /\ SubSeq(s, 1, Len(prefix)) = prefix

\* a plausible slip: only a destination that is a source is turned down
RejectsItself(v, h, dest, source) == Abs(h, dest) = Abs(h, source)

\* if strings.HasPrefix(absDest, absSource) { log.Fatalf(...) }
Rejects(v, h, dest, source) == HasPrefix(Abs(h, dest), AbsSource(v, h, source))

\* the places dst.txt may name, on the first volume: next to the sources,
\* inside the directory d1, next to d1 with a name that starts like it
DestPaths(h) ==
    {Node(IF h = "windows" THEN "C" ELSE "", comps, FALSE, 0) :
        comps \in {<<"out.zip">>, <<"d1", "out.zip">>, <<"d1x.zip">>}}

\* dst.txt: no line, or one line
DestLists(h) == {<<>>} \cup {<<d>> : d \in DestPaths(h)}

\* the program before its first line has run, with no digest stage; drv
\* holds the lines of dst.txt, how many sources the nesting check has
\* passed, and whether os.Create has been called
InitConfig ==
    /\ variant \in {1, 2}
    /\ useSha = FALSE
    /\ host \in {"unix", "windows"}
    /\ sources \in {<<>>} \cup SourceLists(host, MaxSources)
    /\ bw = NewBufferedWriter(BufSize)
    /\ file = [data |-> <<>>, calls |-> <<>>]
    /\ asw = NoAsw
    /\ zw = NewZipWriter
    /\ pc = "config" /\ srcIdx = 0 /\ walk = <<>> /\ cur = <<>> /\ readPos = 0
    /\ pcn = [paused |-> 0, asleep |-> FALSE]
    /\ createdVolumes = {} /\ sidecar = FALSE /\ sha256Sum = <<>>
    /\ hist = NoHist
    /\ \E dl \in DestLists(host) :
         drv = [sinkFaults |-> 0, readFaults |-> 0, destLines |-> dl,
                checked |-> 0, created |-> FALSE]

ConfigUnchanged ==
    UNCHANGED <<bw, file, asw, zw, Config, srcIdx, walk, cur, readPos, pcn,
                createdVolumes, sidecar, sha256Sum, hist>>

\* main: readLines("src.txt"), readLines("dst.txt") and the two emptiness tests
ReadConfig ==
    /\ pc = "config"
    /\ pc' = IF Len(sources) = 0 \/ Len(drv.destLines) = 0 THEN "fatal" ELSE "nesting"
    /\ UNCHANGED drv /\ ConfigUnchanged

\* main: one round of the loop over the sources that compares absDest with
\* absSource; after the last source the scan begins
NestingCheck ==
    /\ pc = "nesting"
    /\ IF drv.checked < Len(sources)
       THEN IF Rejects(variant, host, drv.destLines[1], sources[drv.checked + 1])
            THEN pc' = "fatal" /\ UNCHANGED drv
            ELSE pc' = "nesting" /\ drv' = [drv EXCEPT !.checked = @ + 1]
       ELSE pc' = "scan" /\ UNCHANGED drv
    /\ ConfigUnchanged

\* main, phase 1: the sources are walked to count files and bytes; an error
\* of the walk is fatal in src/main.go and logged in the digest variant
Scan ==
    /\ pc = "scan"
    /\ \E walkErr \in BOOLEAN :
         pc' = IF walkErr /\ variant = 1 THEN "fatal" ELSE "create"
    /\ UNCHANGED drv /\ ConfigUnchanged

\* main: os.Create(destFile); then the pipeline is built and the sources
\* are added
Create ==
    /\ pc = "create"
    /\ \E createErr \in BOOLEAN :
         IF createErr
         THEN pc' = "fatal" /\ UNCHANGED drv
         ELSE pc' = "loop" /\ drv' = [drv EXCEPT !.created = TRUE]
    /\ ConfigUnchanged

NextConfig == ReadConfig \/ NestingCheck \/ Scan \/ Create \/ Producer

SpecConfig == InitConfig /\ [][NextConfig]_vars

-----------------------------------------------------------------------------
(* Component specification: a caller drives one BufferedWriter directly.     *)


\* what the pipeline variables hold while a component is driven on its own
Idle ==
    /\ useSha = FALSE /\ variant = 1 /\ host = "unix" /\ sources = <<>>
    /\ pc = "harness" /\ srcIdx = 0 /\ walk = <<>> /\ cur = <<>> /\ readPos = 0
    /\ pcn = [paused |-> 0, asleep |-> FALSE]
    /\ createdVolumes = {} /\ sidecar = FALSE /\ sha256Sum = <<>> /\ hist = NoHist

IdleUnchanged ==
    UNCHANGED <<useSha, variant, host, sources, pc, srcIdx, walk, cur, readPos,
                pcn, createdVolumes, sidecar, sha256Sum, hist>>

InitBW ==
    /\ Idle
    /\ \E c \in 1..MaxCap : bw = NewBufferedWriter(c)
    /\ file = [data |-> <<>>, calls |-> <<>>]
    /\ asw = NoAsw /\ zw = NewZipWriter
    /\ drv = [input |-> <<>>, faults |-> 0, flushed |-> FALSE, lost |-> FALSE,
              gap |-> {}, refused |-> {}]

\* the next k bytes the caller writes
Fresh(from, k) == [i \in 1..k |-> <<"P", 0, from + i>>]

\* bw.buffer[:bw.offset], the block a Flush hands to the sink
Block(b) == SubSeq(b.buffer, 1, b.offset)

\* the bytes handed to the sink by a sequence of sink writes
RECURSIVE Handed(_)
Handed(calls) == IF calls = <<>> THEN 0 ELSE Head(calls).size + Handed(Tail(calls))

\* The bytes of the block whose sink write failed that the sink did not
\* take: stream is what the call had to pass on (the block buffered before
\* it, then its argument) and calls are the sink writes it issued, each one
\* taking the next bytes of the stream.
Dropped(stream, calls) ==
    IF calls # <<>> /\ ~calls[Len(calls)].ok
    THEN {stream[i] : i \in (Handed(calls) - calls[Len(calls)].size
                                + calls[Len(calls)].n + 1) .. Handed(calls)}
    ELSE {}

\* the sink writes the call issued, file0 being the file before the call
Issued(file0, file1) == SubSeq(file1.calls, Len(file0.calls) + 1, Len(file1.calls))

\* the caller calls bw.Write(p)
BWWrite ==
    /\ \E k \in 0..MaxChunk, failAt \in 0..2, acc \in 0..1 :
         /\ Len(drv.input) + k <= MaxInput
         /\ failAt > 0 => drv.faults < MaxFaults
         /\ \E p \in {Fresh(Len(drv.input), k)} :
            \E r \in {Write(World(failAt, acc), p)} :
               /\ r.w.failAt = 0
               /\ bw' = r.w.bw /\ file' = r.w.file
               /\ drv' = [drv EXCEPT !.input = @ \o p,
                                     !.faults = IF r.err THEN @ + 1 ELSE @,
                                     !.lost = @ \/ r.err,
                                     !.flushed = FALSE,
                                     !.gap = @ \cup Dropped(Block(bw) \o p,
                                                            Issued(file, r.w.file)),
                                     !.refused = @ \cup {p[i] : i \in (r.n + 1)..Len(p)}]
    /\ UNCHANGED <<asw, zw>> /\ IdleUnchanged

\* the caller calls bw.Flush()
BWFlush ==
    /\ \E fail \in BOOLEAN, acc \in 0..1 :
         /\ fail => drv.faults < MaxFaults
         /\ \E r \in {Flush(World(IF fail THEN 1 ELSE 0, acc), "Flush")} :
               /\ r.w.failAt = 0
               /\ bw' = r.w.bw /\ file' = r.w.file
               /\ drv' = [drv EXCEPT !.faults = IF r.err THEN @ + 1 ELSE @,
                                     !.lost = @ \/ r.err,
                                     !.flushed = ~r.err,
                                     !.gap = @ \cup Dropped(Block(bw),
                                                            Issued(file, r.w.file))]
    /\ UNCHANGED <<asw, zw>> /\ IdleUnchanged

NextBW == BWWrite \/ BWFlush

SpecBW == InitBW /\ [][NextBW]_vars

-----------------------------------------------------------------------------
(* Component specification: a caller drives one AsyncSHA256Writer directly: *)
(* Write calls, each in two steps (the write to the wrapped file, then the  *)
(* send to the hash worker), and at the end Sum.                            *)

\* longest chunk one Write call of the digest harness passes
MaxHashChunk == 2
\* total number of bytes the digest harness writes
MaxHashInput == 12

\* the chunk lengths the harness tries: empty, one byte, the longest
HashChunks == {0, 1, MaxHashChunk}

InitHash ==
    /\ useSha = TRUE /\ variant = 2 /\ host = "unix" /\ sources = <<>>
    /\ pc = "write" /\ srcIdx = 0 /\ walk = <<>> /\ cur = <<>> /\ readPos = 0
    /\ pcn = [paused |-> 0, asleep |-> FALSE]
    /\ createdVolumes = {} /\ sidecar = FALSE /\ sha256Sum = <<>> /\ hist = NoHist
    /\ bw = NewBufferedWriter(1)
    /\ file = [data |-> <<>>, calls |-> <<>>]
    /\ asw = NewAsyncSHA256Writer /\ zw = NewZipWriter
    /\ drv = [input |-> 0, faults |-> 0, empty |-> FALSE, calls |-> 0,
              p |-> <<>>, n |-> 0, err |-> FALSE]

HashUnchanged ==
    UNCHANGED <<bw, zw, Config, srcIdx, walk, cur, readPos, pcn, createdVolumes,
                sidecar, sha256Sum, hist>>

\* AsyncSHA256Writer.Write(p), first line: n, err = asw.writer.Write(p).
\* (The harness keeps the bytes the file took and counts the calls.)
HashWrite ==
    /\ pc = "write"
    /\ \E k \in HashChunks, fail \in BOOLEAN, acc \in 0..1 :
         /\ drv.input + k <= MaxHashInput
         /\ fail => drv.faults < MaxFaults /\ k > 0
         /\ \E p \in {Fresh(drv.input, k)} :
            \E r \in {FileWrite(World(IF fail THEN 1 ELSE 0, acc), p, "Write")} :
               /\ file' = [data |-> r.w.file.data, calls |-> <<>>]
               /\ drv' = [input |-> drv.input + k,
                          faults |-> IF fail THEN drv.faults + 1 ELSE drv.faults,
                          empty |-> drv.empty \/ k = 0,
                          calls |-> IF k = 0 THEN drv.calls ELSE Min(drv.calls + 1, 3),
                          p |-> p, n |-> r.n, err |-> r.err]
    /\ pc' = "send"
    /\ UNCHANGED asw /\ HashUnchanged

\* AsyncSHA256Writer.Write(p), the rest: return on an error, else send the
\* copy on dataCh, which blocks while the channel is full
HashSend ==
    /\ pc = "send"
    /\ \E r \in {AswAfterWrite([w |-> World(0, 0), n |-> drv.n, err |-> drv.err], drv.p)} :
         /\ Room(r.w)
         /\ asw' = r.w.asw
    /\ pc' = "write"
    /\ UNCHANGED <<file, drv>> /\ HashUnchanged

\* the caller is done writing and calls Sum
HashSum ==
    /\ pc = "write"
    /\ pc' = "sum"
    /\ UNCHANGED <<file, asw, drv>> /\ HashUnchanged

NextHash ==
    \/ HashWrite \/ HashSend \/ HashSum
    \/ SumClose \/ SumResult \/ SumTimeout \/ SumJoin
    \/ HashWorkerData \/ HashWorkerDone

SpecHash == InitHash /\ [][NextHash]_vars

-----------------------------------------------------------------------------
(* Component specification: several tasks call WaitIfPaused of one          *)
(* PauseController while the input listener calls Toggle.  Both methods run *)
(* under pc.mu, and cond.Wait releases the mutex and enqueues the caller in *)
(* one step, so each critical section is one action.                        *)

\* tasks calling WaitIfPaused
MaxWaiters == 3
\* lines the input listener reads, one Toggle each
MaxToggles == 4

Waiters == 1..MaxWaiters

\* a plausible slip: cond.Signal() for cond.Broadcast(), one waiter is woken
Signal(task) ==
    IF \E t \in Waiters : task[t] = "asleep"
    THEN [task EXCEPT ![CHOOSE t \in Waiters : task[t] = "asleep"] = "woken"]
    ELSE task

\* pc.cond.Broadcast(): every waiter is woken
Broadcast(task) ==
    [t \in Waiters |-> IF task[t] = "asleep" THEN "woken" ELSE task[t]]

\* drv.task[t] is where task t stands: "out" of WaitIfPaused, "asleep" in
\* cond.Wait, "woken" by a broadcast, "back" from the call
InitGate ==
    /\ Idle
    /\ bw = NewBufferedWriter(1)
    /\ file = [data |-> <<>>, calls |-> <<>>]
    /\ asw = NoAsw /\ zw = NewZipWriter
    /\ drv = [task |-> [t \in Waiters |-> "out"], toggles |-> 0]

GateUnchanged ==
    UNCHANGED <<bw, file, asw, zw, Config, pc, srcIdx, walk, cur, readPos,
                createdVolumes, sidecar, sha256Sum, hist>>

\* WaitIfPaused under the mutex: the flag is tested; the caller returns or
\* goes (back) to sleep in cond.Wait
GateTest(t, from) ==
    /\ drv.task[t] = from
    /\ drv' = [drv EXCEPT !.task[t] = IF MustWait(pcn.paused) THEN "asleep" ELSE "back"]
    /\ pcn' = [pcn EXCEPT !.asleep = \E u \in Waiters : drv'.task[u] = "asleep"]
    /\ GateUnchanged

\* task t calls WaitIfPaused
GateEnter(t) == GateTest(t, "out")

\* task t, woken, gets the mutex back and tests the flag again
GateWake(t) == GateTest(t, "woken")

\* task t goes on with its work
GateLeave(t) ==
    /\ drv.task[t] = "back"
    /\ drv' = [drv EXCEPT !.task[t] = "out"]
    /\ UNCHANGED pcn /\ GateUnchanged

\* the input listener calls Toggle
GateToggle ==
    /\ drv.toggles < MaxToggles
    /\ pcn' = IF pcn.paused = 0 THEN Paused(pcn) ELSE Resumed(pcn)
    /\ drv' = [task |-> IF pcn.paused = 0 THEN drv.task ELSE Broadcast(drv.task),
               toggles |-> drv.toggles + 1]
    /\ GateUnchanged

NextGate ==
    \/ \E t \in Waiters : GateEnter(t) \/ GateWake(t) \/ GateLeave(t)
    \/ GateToggle

\* a woken task is scheduled in the end
SpecGate == InitGate /\ [][NextGate]_vars /\ \A t \in Waiters : WF_vars(GateWake(t))

-----------------------------------------------------------------------------
(* Component specification: a caller drives one SpeedTracker.  Time is      *)
(* counted in whole milliseconds; currentSpeed, a float64 quotient in the   *)
(* code, is kept as its two operands: bytes per ms milliseconds.            *)

\* clock steps the harness takes
MaxTicks == 10

\* 500*time.Millisecond
SamplePeriod == 500

\* NewSpeedTracker(), created at time now
NewSpeedTracker(now) ==
    [totalBytes |-> 0, lastBytes |-> 0, lastTime |-> now,
     currentSpeed |-> [bytes |-> 0, ms |-> 1]]

\* a plausible slip: the rate is taken over the whole run, not over the
\* bytes since the last sample
RateOfTotal(totalBytes, lastBytes, elapsedMs) == [bytes |-> totalBytes, ms |-> elapsedMs]

\* float64(st.totalBytes-st.lastBytes) / elapsed
Rate(totalBytes, lastBytes, elapsedMs) ==
    [bytes |-> totalBytes - lastBytes, ms |-> elapsedMs]

\* SpeedTracker.Update after st.totalBytes += bytes, with now = time.Now()
Sampled(st, now) ==
    IF now - st.lastTime >= SamplePeriod
    THEN [st EXCEPT !.currentSpeed = IF now - st.lastTime > 0
                                     THEN Rate(st.totalBytes, st.lastBytes, now - st.lastTime)
                                     ELSE @,
                    !.lastBytes = st.totalBytes,
                    !.lastTime = now]
    ELSE st

\* SpeedTracker.Update(bytes)
Update(st, bytes, now) == Sampled([st EXCEPT !.totalBytes = @ + bytes], now)

\* SpeedTracker.GetSpeed()
GetSpeed(st) == st.currentSpeed

\* drv holds the tracker, the clock, the sizes passed to Update at the
\* present instant, the last value GetSpeed returned, and whether up to the
\* last instant the caller has called Update(1000) once every 100 ms
InitSpeed ==
    /\ Idle
    /\ bw = NewBufferedWriter(1)
    /\ file = [data |-> <<>>, calls |-> <<>>]
    /\ asw = NoAsw /\ zw = NewZipWriter
    /\ drv = [st |-> NewSpeedTracker(0), now |-> 0, ticks |-> 0, sizes |-> <<>>,
              seen |-> [bytes |-> 0, ms |-> 1], regular |-> TRUE]

SpeedUnchanged ==
    UNCHANGED <<bw, file, asw, zw, Config, pc, srcIdx, walk, cur, readPos, pcn,
                createdVolumes, sidecar, sha256Sum, hist>>

\* time passes
SpeedTick ==
    /\ drv.ticks < MaxTicks
    /\ \E d \in {100, 250} :
         drv' = [drv EXCEPT !.now = @ + d, !.ticks = @ + 1, !.sizes = <<>>,
                            !.regular = /\ @ /\ d = 100
                                        /\ drv.sizes = IF drv.now = 0 THEN <<>>
                                                       ELSE <<1000>>]
    /\ SpeedUnchanged

\* the copy loop calls speedTracker.Update(int64(n))
SpeedUpdate ==
    /\ Len(drv.sizes) < 1
    /\ \E n \in {0, 1000} :
         drv' = [drv EXCEPT !.st = Update(@, n, drv.now), !.sizes = Append(@, n)]
    /\ SpeedUnchanged

\* the progress goroutine calls speedTracker.GetSpeed()
SpeedGet ==
    /\ drv' = [drv EXCEPT !.seen = GetSpeed(drv.st)]
    /\ SpeedUnchanged

NextSpeed == SpeedTick \/ SpeedUpdate \/ SpeedGet

SpecSpeed == InitSpeed /\ [][NextSpeed]_vars

-----------------------------------------------------------------------------
(* Properties *)

\* every write the file received was accepted in full
AllAccepted == \A i \in 1..Len(file.calls) : file.calls[i].ok

\* the stream of a run in which nothing fails, entry by entry: k headers are
\* out, open tells whether the last one is a file awaiting its descriptor
Payload(k, size) == [i \in 1..size |-> <<"P", k, i>>]

Descriptor(k, open) == IF open THEN << <<"X", k, 0>> >> ELSE <<>>

RECURSIVE StreamOf(_, _, _, _)
StreamOf(entries, k, open, vols) ==
    IF entries = <<>>
    THEN Descriptor(k, open) \o << <<"CD", k, 0>>, <<"END", k, 0>> >>
    ELSE LET n == Head(entries)
             newVol == variant = 2 /\ n.vol # "" /\ n.vol \notin vols
             k1 == IF newVol THEN k + 1 ELSE k
             pre == IF newVol THEN Descriptor(k, open) \o << <<"H", k1, 0>> >> ELSE <<>>
             open1 == open /\ ~newVol
             skip == variant = 2 /\ n.vol = "" /\ n.comps = <<>>
         IN IF skip
            THEN pre \o StreamOf(Tail(entries), k1, open1, vols \cup {n.vol})
            ELSE pre \o Descriptor(k1, open1) \o << <<"H", k1 + 1, 0>> >>
                     \o (IF n.isDir THEN <<>> ELSE Payload(k1 + 1, n.size))
                     \o StreamOf(Tail(entries), k1 + 1, ~n.isDir, vols \cup {n.vol})

\* what the same run writes to the device when nobody touches the pause
ExpectedStream ==
    StreamOf(Flatten([i \in 1..Len(sources) |-> Walk(sources[i])]), 0, FALSE, {})

\* C1: for every capacity C >= 1 and every chunking of the input, right after
\* the caller's Flush and with a sink that accepted every write, the bytes
\* the sink received are exactly the bytes written, in order.
RoundTrip ==
    (drv.flushed /\ ~drv.lost) => file.data = drv.input

\* a flushed run whose input was longer than the buffer, so that it reached
\* the sink in several writes, the last one short
RoundTripWitness ==
    /\ drv.flushed /\ ~drv.lost
    /\ Len(drv.input) = MaxInput
    /\ Len(file.calls) >= 3
    /\ file.calls[Len(file.calls)].size < Len(bw.buffer)

\* C2: whatever the interleaving of Toggle with the copy loop, if the gate is
\* left running in the end then the run completes and the device holds
\* exactly the bytes of the run without any Toggle.
PauseTransparent ==
    (<>[](pcn.paused = 0)) => <>(pc = "done" /\ file.data = ExpectedStream)

\* a completed run whose copy loop was blocked in WaitIfPaused on the way
PauseTransparentWitness ==
    /\ pc = "done" /\ hist.blocked
    /\ Len(file.calls) >= 2
    /\ file.data = ExpectedStream

\* C3: when Sum returns a digest after writes the file accepted in full, it
\* is the digest of exactly the bytes written to the file, in write order.
DigestOfStream ==
    (pc = "report" /\ sha256Sum # <<>> /\ drv.faults = 0) => sha256Sum = Sha256Hex(file.data)

\* Sum returned the digest of a stream written in several chunks, with an
\* empty Write among the calls
DigestOfStreamWitness ==
    /\ pc = "report" /\ sha256Sum # <<>> /\ drv.faults = 0
    /\ drv.calls >= 3 /\ drv.empty
    /\ sha256Sum = Sha256Hex(file.data)

\* C4, as stated: while the pause flag is set the producer reads nothing
\* and nothing reaches the device.
NoIOWhilePaused ==
    [][pcn.paused = 1 => (file' = file /\ hist'.reads = hist.reads)]_vars

\* C4, amended: while the flag is set and the producer stands at a
\* WaitIfPaused call it stays there, reads nothing, writes nothing and the
\* buffer keeps its bytes; and no Toggle touches the buffer or the device.
PauseHolds ==
    [][/\ (pcn.paused = 1 /\ pc \in {"cbWait", "chunkWait"}) =>
            (pc' = pc /\ file' = file /\ bw' = bw /\ hist'.reads = hist.reads)
       /\ pcn'.paused # pcn.paused => (file' = file /\ bw' = bw)]_vars

\* the producer blocked in the copy loop with bytes waiting in the buffer
PauseHoldsWitness ==
    /\ pcn.paused = 1 /\ pcn.asleep /\ pc = "chunkWait"
    /\ bw.offset > 0 /\ file.data # <<>>

\* C5, as stated: in each variant an error of the copy loop ends the run
\* with a fatal error and no later entry is started.
FailFastEverywhere ==
    hist.copyErr => (pc = "fatal" /\ hist.started = hist.errAt)

\* C5, amended: that is so in src/main.go; the digest variant never ends
\* with a fatal error.
FailFastMain ==
    /\ (variant = 1 /\ hist.copyErr) => (pc = "fatal" /\ hist.started = hist.errAt)
    /\ pc = "fatal" => variant = 1

\* src/main.go stopped by a copy error with entries left to walk
FailFastMainWitness ==
    /\ variant = 1 /\ hist.copyErr /\ pc = "fatal"
    /\ walk # <<>>

\* C6: the .sha256 file is written only if the entry writes, zipWriter.Close
\* and the final Flush all succeeded.
SidecarOnlyIfFinalized ==
    sidecar => (AllAccepted /\ ~hist.finalErr)

\* C7: the trailing directory is written at most once; a run that completes
\* wrote it exactly once and the device ends with it; a run that ended with
\* a fatal error never wrote it.
DirectoryOnce ==
    /\ zw.dirOut <= 1
    /\ pc = "fatal" => zw.dirOut = 0
    /\ pc = "done" =>
         /\ zw.dirOut = 1
         /\ file.data # <<>>
         /\ file.data[Len(file.data)] = <<"END", Len(zw.dir), 0>>

\* C8: a write issued from inside BufferedWriter.Write has exactly the
\* buffer's capacity, only Flush delivers less, and only as the last write.
FullBlocks ==
    \A i \in 1..Len(file.calls) :
        /\ file.calls[i].via = "Write" => file.calls[i].size = Len(bw.buffer)
        /\ i < Len(file.calls) => file.calls[i].size = Len(bw.buffer)
        /\ file.calls[i].size > 0

\* a completed run: full blocks out of Write, then the short block of Flush
FullBlocksWitness ==
    /\ pc = "done" /\ Len(file.calls) >= 3
    /\ file.calls[1].via = "Write"
    /\ file.calls[Len(file.calls)].via = "Flush"
    /\ file.calls[Len(file.calls)].size < Len(bw.buffer)

\* the name of the volume root R
IsRootName(name) ==
    name.slash /\ Len(name.comps) = 1 /\ name.comps[1] \in createdVolumes

\* C9: of each volume root R met, one header R/ is emitted in the whole
\* container, before every entry named R/..., and never a second one.
VolumeHeaderOnce ==
    \A i \in 1..Len(zw.dir) :
        /\ IsRootName(zw.dir[i].name) =>
             \A j \in 1..Len(zw.dir) : zw.dir[j].name = zw.dir[i].name => j = i
        /\ (Len(zw.dir[i].name.comps) > 1 /\ zw.dir[i].name.comps[1] \in createdVolumes) =>
             \E j \in 1..(i - 1) : zw.dir[j].name = Name(<<zw.dir[i].name.comps[1]>>, TRUE)

\* C10: two enumerated objects with distinct absolute paths get distinct
\* entry names, in each variant.
DistinctNames ==
    \A i, j \in 1..Len(zw.dir) :
        (~zw.dir[i].synth /\ ~zw.dir[j].synth /\ zw.dir[i].info # zw.dir[j].info) =>
            zw.dir[i].name # zw.dir[j].name

\* the destination lies inside the directory tree of source n
Inside(dest, n) ==
    /\ n.isDir /\ dest.vol = n.vol
    /\ Len(dest.comps) > Len(n.comps) /\ IsPrefix(n.comps, dest.comps)

\* a configuration the program must turn down
BadConfig ==
    \/ sources = <<>> \/ drv.destLines = <<>>
    \/ \E i \in 1..Len(sources) : Inside(drv.destLines[1], sources[i])

\* C11: with an empty source list, an empty destination list or a
\* destination inside a source the run never leaves the configuration
\* stage but for the fatal exit, the destination is not created and no
\* byte is written; and os.Create is reached only after the nesting check
\* has passed every source.
ConfigBeforeCreate ==
    /\ BadConfig =>
         /\ pc \in {"config", "nesting", "fatal"}
         /\ ~drv.created /\ file.data = <<>> /\ file.calls = <<>>
    /\ pc \in {"scan", "create"} \/ drv.created => drv.checked = Len(sources)

\* the run ended fatally on its second source, the first one having passed
\* the nesting check, with nothing created
ConfigBeforeCreateWitness ==
    /\ pc = "fatal" /\ ~drv.created /\ drv.checked = 1
    /\ Len(sources) = 2 /\ drv.destLines # <<>>
    /\ Inside(drv.destLines[1], sources[2])
    /\ ~Inside(drv.destLines[1], sources[1])

\* C12: once Sum has timed out (doneCh is closed) it waits for the worker
\* to exit and returns the empty digest, no sidecar is ever written, the
\* container is already complete on the device, and the run goes on to its
\* normal end.
TimeoutIsNotFatal ==
    /\ [](asw.doneCh =>
            /\ pc \in {"sumJoin", "report", "deferClose", "deferFlush", "done"}
            /\ pc # "sumJoin" => asw.worker = "exited"
            /\ sha256Sum = <<>> /\ ~sidecar
            /\ zw.dirOut = 1 /\ file.data = ExpectedStream)
    /\ (asw.doneCh ~> pc = "done")

\* a completed digest run whose Sum timed out before the worker had folded
\* the whole stream
TimeoutIsNotFatalWitness ==
    /\ pc = "done" /\ useSha /\ asw.doneCh
    /\ asw.folded # file.data /\ file.data # <<>>
    /\ sha256Sum = <<>> /\ ~sidecar

\* C13: every Toggle flips the flag; WaitIfPaused returns only from a test
\* that saw the flag clear; and if the flag is cleared and stays clear, no
\* task stays in WaitIfPaused (none sleeps on, none stays woken without
\* returning).
NoLostWakeup ==
    /\ [][drv'.toggles # drv.toggles => pcn'.paused = 1 - pcn.paused]_vars
    /\ [][\A t \in Waiters :
            (drv'.task[t] = "back" /\ drv.task[t] # "back") => pcn.paused = 0]_vars
    /\ \A t \in Waiters :
         (<>[](pcn.paused = 0)) => <>[](drv.task[t] \notin {"asleep", "woken"})

\* every task asleep at once while the flag is set, after a first round of
\* pause and resume
NoLostWakeupWitness ==
    /\ pc = "harness" /\ "task" \in DOMAIN drv
    /\ \A t \in Waiters : drv.task[t] = "asleep"
    /\ pcn.paused = 1 /\ drv.toggles = 3

\* C14: while the pause flag is set (hist.sincePause counts the reads since
\* the last Toggle) the producer reads at most one more chunk, and after
\* that read it is not in a position to read again: it has to pass
\* WaitIfPaused first, which holds it.
PauseLatency ==
    pcn.paused = 1 =>
        /\ hist.sincePause <= 1
        /\ hist.sincePause = 1 => pc # "chunkRW"

\* paused while a chunk was being copied: the producer read that one chunk
\* and now sleeps in WaitIfPaused with part of the file still unread
PauseLatencyWitness ==
    /\ pcn.paused = 1 /\ pcn.asleep /\ pc = "chunkWait"
    /\ hist.sincePause = 1
    /\ readPos > 0 /\ readPos < cur.size

\* C15: between two Write calls made before Close, whatever the outcome of
\* the sink writes, the bytes folded so far followed by the bytes waiting in
\* the queue are exactly the bytes the file accepted.
DigestFedEveryByte ==
    (pc = "write" /\ ~asw.closed) => asw.folded \o Flatten(asw.dataCh) = file.data

\* C16: the queue never holds more than QueueDepth chunks; a Write that has
\* a chunk to send returns only from a state where the queue had room, and
\* the chunk is then the last of the queue; the worker takes the chunk at
\* the head; so the bytes folded, then the bytes queued, are the bytes written
\* in their order (nothing dropped, nothing reordered).
QueueBounded ==
    /\ [](Len(asw.dataCh) <= QueueDepth)
    /\ [][(pc = "send" /\ pc' = "write" /\ ~drv.err /\ drv.n > 0 /\ ~asw.closed) =>
            /\ Len(asw.dataCh) < QueueDepth
            /\ asw'.dataCh = Append(asw.dataCh, SubSeq(drv.p, 1, drv.n))]_vars
    /\ [][asw'.folded # asw.folded =>
            /\ asw'.folded = asw.folded \o Head(asw.dataCh)
            /\ asw'.dataCh = Tail(asw.dataCh)]_vars
    /\ []((drv.faults = 0 /\ pc # "send") =>
            asw.folded \o Flatten(asw.dataCh) = file.data)

\* a Write held up in its send: the queue is full and the worker has not
\* yet folded anything
QueueBoundedWitness ==
    /\ pc = "send" /\ ~drv.err /\ drv.n > 0
    /\ Len(asw.dataCh) = QueueDepth /\ asw.folded = <<>>

\* C17: when the digest stage is closed the zip writer has been closed (or
\* has failed) and the buffer has been flushed; from then on nothing is
\* written to the device; and a completed run in which the device accepted
\* every write and Sum returned a digest has the trailing directory at the
\* end of the device stream and the digest of that whole stream.
ShutdownOrder ==
    /\ [](asw.closed => (bw.offset = 0 /\ (zw.closed \/ zw.err)))
    /\ [][asw.closed => file' = file]_vars
    /\ []((pc = "done" /\ useSha /\ AllAccepted /\ sha256Sum # <<>>) =>
            /\ zw.dirOut = 1
            /\ file.data # <<>>
            /\ file.data[Len(file.data)] = <<"END", Len(zw.dir), 0>>
            /\ sha256Sum = Sha256Hex(file.data))

\* a completed digest run: the last device write came from Flush, the
\* sidecar holds the digest of the container
ShutdownOrderWitness ==
    /\ pc = "done" /\ useSha /\ sidecar /\ AllAccepted
    /\ Len(file.calls) >= 2
    /\ file.calls[Len(file.calls)].via = "Flush"
    /\ sha256Sum = Sha256Hex(file.data)

\* the sink writes issued by the step being taken
NewCalls == SubSeq(file'.calls, Len(file.calls) + 1, Len(file'.calls))

\* C18: a Write or Flush call in which the sink returned an error issued no
\* sink write after the failed one (no retry), returned an error to its
\* caller, and copied nothing into the buffer after the failure; and a call
\* returns an error only if a sink write of that call failed.
ErrorPropagates ==
    [][/\ (\E i \in 1..Len(NewCalls) : ~NewCalls[i].ok) =>
            /\ \A i \in 1..Len(NewCalls) : NewCalls[i].ok <=> i < Len(NewCalls)
            /\ drv'.faults = drv.faults + 1
            /\ bw'.offset = 0
       /\ drv'.faults # drv.faults => (\E i \in 1..Len(NewCalls) : ~NewCalls[i].ok)]_vars

\* a Write call stopped by the failure of its second sink write, with input
\* bytes that reached neither the sink nor the buffer
ErrorPropagatesWitness ==
    /\ pc = "harness" /\ "lost" \in DOMAIN drv /\ drv.lost
    /\ Len(file.calls) >= 2
    /\ ~file.calls[Len(file.calls)].ok /\ file.calls[Len(file.calls)].via = "Write"
    /\ file.calls[Len(file.calls) - 1].via = "Write"
    /\ bw.offset = 0
    /\ Len(drv.input) > 2 * Len(bw.buffer)

\* C19: no header of an object's own has an empty name or the name ".",
\* and none belongs to a volume root: the object at the root of the
\* traversal is skipped.
RootSkipped ==
    \A i \in 1..Len(zw.dir) :
        ~zw.dir[i].synth =>
            /\ zw.dir[i].name.comps \notin {<<>>, <<".">>}
            /\ zw.dir[i].info.comps # <<>>

\* the rate r is exactly b bytes per second
IsRate(r, b) == r.bytes * 1000 = b * r.ms

\* C20: Update(n) adds n to the total; it samples exactly when at least
\* SamplePeriod has passed since the last sample: the rate becomes the bytes
\* since the baseline over the time since the baseline, and the baseline
\* moves to the present total and time; otherwise rate and baseline stay;
\* GetSpeed returns the last rate and changes nothing.  And a caller that
\* calls Update(1000) once every 100 ms reads no rate before 500 ms and
\* 10000 bytes/s from the sample at 500 ms on.
SamplerContract ==
    /\ [][Len(drv'.sizes) > Len(drv.sizes) =>
            /\ drv'.st.totalBytes = drv.st.totalBytes + drv'.sizes[Len(drv'.sizes)]
            /\ IF drv.now - drv.st.lastTime >= 500
               THEN /\ drv'.st.currentSpeed =
                         [bytes |-> drv'.st.totalBytes - drv.st.lastBytes,
                          ms |-> drv.now - drv.st.lastTime]
                    /\ drv'.st.lastBytes = drv'.st.totalBytes
                    /\ drv'.st.lastTime = drv.now
               ELSE /\ drv'.st.currentSpeed = drv.st.currentSpeed
                    /\ drv'.st.lastBytes = drv.st.lastBytes
                    /\ drv'.st.lastTime = drv.st.lastTime]_vars
    /\ [][drv'.seen # drv.seen =>
            (drv'.st = drv.st /\ drv'.seen = drv.st.currentSpeed)]_vars
    /\ []((drv.regular /\ drv.sizes \in {<<>>, <<1000>>}) =>
            IF drv.now > 500 \/ (drv.now = 500 /\ drv.sizes = <<1000>>)
            THEN IsRate(drv.st.currentSpeed, 10000)
            ELSE IsRate(drv.st.currentSpeed, 0))

\* Update(1000) every 100 ms for a second: the second sample has
\* been taken and GetSpeed has returned 10000 bytes/s
SamplerContractWitness ==
    /\ pc = "harness" /\ "st" \in DOMAIN drv
    /\ drv.regular /\ drv.sizes = <<1000>> /\ drv.now = 1000
    /\ drv.st.lastTime = 1000 /\ drv.st.totalBytes = 10000
    /\ IsRate(drv.seen, 10000)

\* the bytes the caller's Write calls reported as written that were not in
\* a block lost to a failed sink write, in the order written
Kept == SelectSeq(drv.input, LAMBDA b : b \notin drv.gap \cup drv.refused)

\* C21: a Write or Flush call in which the sink write failed leaves offset
\* at 0 and drops the bytes of that block the sink did not take: no later
\* call hands them to the sink.  Later calls are accepted: a call whose
\* sink writes all succeed returns no error and takes every byte it is
\* given, and at every moment the sink holds, followed by the buffered
\* block, exactly the bytes written and not dropped, in the order written.
BlockDiscarded ==
    /\ [][/\ (\E i \in 1..Len(NewCalls) : ~NewCalls[i].ok) =>
                (bw'.offset = 0 /\ drv'.gap # {})
          /\ (\A i \in 1..Len(NewCalls) : NewCalls[i].ok) =>
                /\ drv'.faults = drv.faults
                /\ drv'.gap = drv.gap /\ drv'.refused = drv.refused]_vars
    /\ [](\A i \in 1..Len(file.data) : file.data[i] \notin drv.gap)
    /\ [](file.data \o Block(bw) = Kept)

\* a block was lost to a failed sink write that took part of it, and the
\* calls after it, a Write and then a Flush, delivered bytes written later
BlockDiscardedWitness ==
    /\ pc = "harness" /\ "gap" \in DOMAIN drv
    /\ drv.gap # {} /\ drv.flushed
    /\ Len(file.calls) >= 3
    /\ \E i \in 1..(Len(file.calls) - 1) :
         /\ ~file.calls[i].ok /\ file.calls[i].n > 0
         /\ file.calls[i + 1].ok
    /\ \E i \in 1..Len(file.data) : \E b \in drv.gap : file.data[i][3] > b[3]

=============================================================================
